---------------------------- MODULE Spec2Model ----------------------------
(***************************************************************************)
(* A model of sodaprogram.py: the table scanner (fetch_main_page), the     *)
(* concurrent fetch stage (fetch_all_session_details) and the renderer     *)
(* (generate_html), with main's staging of the three.                      *)
(*                                                                         *)
(* Text is modelled at the level the code inspects it:                     *)
(*   - titles and time expressions are sequences of one-character strings, *)
(*     so that the regular expressions, the substring filter, str.replace  *)
(*     and the code-point comparison of sorted() are computed, not assumed;*)
(*   - a day label is the sequence of its ', '-separated fields, which is  *)
(*     what d.split(', ') yields;                                          *)
(*   - a link is a record [host, path]; locations are atomic strings.      *)
(* Python's None is the value None below.                                  *)
(***************************************************************************)
EXTENDS Integers, Sequences, FiniteSets, TLC

None == <<"None">>

(***************************************************************************)
(* Characters                                                              *)
(***************************************************************************)
\* The printable ASCII characters in code-point order, from 32 (space); the
\* quote characters and the backslash are spelled out.
Ascii ==
  << " ", "!", "dquote", "#", "$", "%", "&", "squote", "(", ")", "*", "+", ",", "-", ".", "/",
     "0", "1", "2", "3", "4", "5", "6", "7", "8", "9", ":", ";", "<", "=", ">", "?",
     "@", "A", "B", "C", "D", "E", "F", "G", "H", "I", "J", "K", "L", "M", "N", "O",
     "P", "Q", "R", "S", "T", "U", "V", "W", "X", "Y", "Z", "[", "bslash", "]", "^", "_",
     "bquote", "a", "b", "c", "d", "e", "f", "g", "h", "i", "j", "k", "l", "m", "n", "o",
     "p", "q", "r", "s", "t", "u", "v", "w", "x", "y", "z", "{", "|", "}", "~" >>

\* ord(c): the code point of a character.
OrdTable ==
  [c \in {Ascii[i] : i \in 1..Len(Ascii)} |->
     31 + (CHOOSE i \in 1..Len(Ascii) : Ascii[i] = c)]

Ord(c) == OrdTable[c]

\* str.lower() on one character.
LowerTable ==
  [c \in DOMAIN OrdTable |->
     IF OrdTable[c] >= 65 /\ OrdTable[c] <= 90 THEN Ascii[OrdTable[c] + 32 - 31] ELSE c]

Lower(c) == LowerTable[c]

\* The regular expression classes \d and \s.
IsDigit(c) == Ord(c) >= 48 /\ Ord(c) <= 57
IsSpace(c) == c = " "

(***************************************************************************)
(* Strings (sequences of characters)                                       *)
(***************************************************************************)
LowerStr(s) == [i \in 1..Len(s) |-> Lower(s[i])]

\* s[i..] starts with p (1-based i).
StartsWithAt(s, p, i) ==
  /\ i + Len(p) - 1 <= Len(s)
  /\ \A k \in 1..Len(p) : s[i + k - 1] = p[k]

\* The Python test  p in s .
Contains(s, p) == \E i \in 1..(Len(s) - Len(p) + 1) : StartsWithAt(s, p, i)

\* Python's str comparison  a < b : code points, then length.
StrLess(a, b) ==
  \E i \in 1..(Len(a) + 1) :
     /\ \A k \in 1..(i - 1) : k <= Len(b) /\ a[k] = b[k]
     /\ i <= Len(b)
     /\ (i = Len(a) + 1 \/ Ord(a[i]) < Ord(b[i]))

\* str.strip() / str.lstrip(ch).
RECURSIVE LStripChar(_, _)
LStripChar(s, ch) ==
  IF Len(s) > 0 /\ s[1] = ch THEN LStripChar(Tail(s), ch) ELSE s

RECURSIVE RStripChar(_, _)
RStripChar(s, ch) ==
  IF Len(s) > 0 /\ s[Len(s)] = ch THEN RStripChar(SubSeq(s, 1, Len(s) - 1), ch) ELSE s

Strip(s) == RStripChar(LStripChar(s, " "), " ")

\* The first position >= i of s that holds no whitespace (Len(s)+1 if none).
RECURSIVE SkipSpaces(_, _)
SkipSpaces(s, i) ==
  IF i <= Len(s) /\ IsSpace(s[i]) THEN SkipSpaces(s, i + 1) ELSE i

(***************************************************************************)
(* extract_time                                                            *)
(***************************************************************************)
\* (AM|PM) under re.IGNORECASE at position i.
IsAmPmAt(s, i) ==
  /\ i + 1 <= Len(s)
  /\ Lower(s[i]) \in {"a", "p"}
  /\ Lower(s[i + 1]) = "m"

\* \d{2}\s?(AM|PM) at position i, after the colon: the position after the match, or 0.
MinutesEnd(s, i) ==
  IF i + 1 <= Len(s) /\ IsDigit(s[i]) /\ IsDigit(s[i + 1])
  THEN LET j == IF i + 2 <= Len(s) /\ IsSpace(s[i + 2]) THEN i + 3 ELSE i + 2
       IN  IF IsAmPmAt(s, j) THEN j + 2 ELSE 0
  ELSE 0

\* \d{1,2}:\d{2}\s?(AM|PM) matched at position i: the position after the match,
\* or 0 when it does not match there.
TimeEnd(s, i) ==
  IF i + 2 <= Len(s) /\ IsDigit(s[i]) /\ IsDigit(s[i + 1]) /\ s[i + 2] = ":"
  THEN MinutesEnd(s, i + 3)
  ELSE IF i + 1 <= Len(s) /\ IsDigit(s[i]) /\ s[i + 1] = ":"
  THEN MinutesEnd(s, i + 2)
  ELSE 0

\* The range pattern matched at position i: <<end of first time, start of second
\* time, end of second time>>, or <<0, 0, 0>>.  (The en and em dashes of the
\* character class are outside the modelled alphabet.)
RangeAt(s, i) ==
  LET e1 == TimeEnd(s, i)
      d  == SkipSpaces(s, e1)
      b2 == SkipSpaces(s, d + 1)
      e2 == TimeEnd(s, b2)
  IN  IF e1 > 0 /\ d <= Len(s) /\ s[d] = "-" /\ e2 > 0
      THEN <<e1, b2, e2>>
      ELSE <<0, 0, 0>>

extract_time(text) ==
  LET rangeStarts == {i \in 1..Len(text) : RangeAt(text, i)[1] > 0}
      timeStarts  == {i \in 1..Len(text) : TimeEnd(text, i) > 0}
      First(S)    == CHOOSE i \in S : \A j \in S : i <= j
  IN  IF rangeStarts # {}
      THEN LET i == First(rangeStarts)
               m == RangeAt(text, i)
           IN  <<SubSeq(text, i, m[1] - 1), SubSeq(text, m[2], m[3] - 1)>>
      ELSE IF timeStarts # {}
      THEN LET i == First(timeStarts)
           IN  <<SubSeq(text, i, TimeEnd(text, i) - 1), None>>
      ELSE <<None, None>>

(***************************************************************************)
(* clean_session_title, is_talk_session                                    *)
(***************************************************************************)
\* The first position >= i of s that holds no digit.
RECURSIVE SkipDigits(_, _)
SkipDigits(s, i) ==
  IF i <= Len(s) /\ IsDigit(s[i]) THEN SkipDigits(s, i + 1) ELSE i

\* re.sub(r'^CP\d+\s+', '', title).strip()
clean_session_title(title) ==
  LET d == SkipDigits(title, 3)
      w == SkipSpaces(title, d)
  IN  IF StartsWithAt(title, <<"C", "P">>, 1) /\ d > 3 /\ w > d
      THEN Strip(SubSeq(title, w, Len(title)))
      ELSE Strip(title)

talk_keywords ==
  { <<"S", "e", "s", "s", "i", "o", "n">>,
    <<"I", "P">>,
    <<"C", "P">>,
    <<"S", "O", "D", "A">>,
    <<"A", "L", "E", "N", "E", "X">>,
    <<"S", "O", "S", "A">>,
    <<"W", "o", "r", "k", "s", "h", "o", "p">>,
    <<"L", "e", "c", "t", "u", "r", "e">> }

\* keyword.lower() for keyword in talk_keywords
lower_keywords == {LowerStr(keyword) : keyword \in talk_keywords}

is_talk_session(session_title) ==
  LET lowered == LowerStr(session_title)
  IN  \E keyword \in lower_keywords : Contains(lowered, keyword)


(***************************************************************************)
(* Ordered dictionaries: Python's dict / defaultdict keeps insertion       *)
(* order.  A dictionary is a sequence of [key, val] entries.               *)
(***************************************************************************)
HasKey(d, k) == \E i \in 1..Len(d) : d[i].key = k

Keys(d) == [i \in 1..Len(d) |-> d[i].key]

\* d[k] of a defaultdict(list), read without inserting.
Get(d, k) ==
  IF HasKey(d, k) THEN d[CHOOSE i \in 1..Len(d) : d[i].key = k].val ELSE <<>>

\* d[k] = v : a new key goes last, an old key keeps its place.
Put(d, k, v) ==
  IF HasKey(d, k)
  THEN [i \in 1..Len(d) |-> IF d[i].key = k THEN [key |-> k, val |-> v] ELSE d[i]]
  ELSE Append(d, [key |-> k, val |-> v])

\* d[k].append(x) on a defaultdict(list).
AppendTo(d, k, x) == Put(d, k, Append(Get(d, k), x))

\* The values of a dictionary, concatenated in order.
RECURSIVE Values(_)
Values(d) == IF d = <<>> THEN <<>> ELSE Head(d).val \o Values(Tail(d))

(***************************************************************************)
(* Links                                                                   *)
(***************************************************************************)
\* sys.argv[1], e.g. https://meetings.siam.org/program.cfm?CONFCODE=SODA25
url ==
  [host |-> "https://meetings.siam.org", path |-> << <<"p", "r", "o", "g">> >>]

\* The default link "#" of a session without an anchor.
HashLink == [host |-> "", path |-> << <<"#">> >>]

\* urljoin(base, href): an absolute href stands; a relative one replaces the
\* last segment of the base path.
urljoin(base, href) ==
  IF href.host # ""
  THEN [host |-> href.host, path |-> href.path]
  ELSE [host |-> base.host,
        path |-> SubSeq(base.path, 1, Len(base.path) - 1) \o href.path]

(***************************************************************************)
(* fetch_main_page: the row scanner                                        *)
(*                                                                         *)
(* A row is the sequence of its <td> cells; a cell is                      *)
(*   [colspan, text, has_link, href]                                       *)
(* where text is the cell text (the anchor text when the cell holds an     *)
(* anchor).                                                                *)
(***************************************************************************)
\* day_pattern.search(text): a field of the label is a weekday name.
Weekdays ==
  {"Monday", "Tuesday", "Wednesday", "Thursday", "Friday", "Saturday", "Sunday"}

day_pattern_search(text) == \E i \in 1..Len(text) : text[i] \in Weekdays

\* time_text before the first three-cell row: the local is not bound yet.
Unbound == <<"Unbound">>

\* row.find('td', colspan=True): whether there is such a cell, and the first.
has_td_day(row) == \E i \in 1..Len(row) : row[i].colspan

td_day(row) ==
  row[CHOOSE i \in 1..Len(row) :
        row[i].colspan /\ \A j \in 1..(i - 1) : ~row[j].colspan]

\* The scanner's locals after a row.  raised: the row raised an exception out
\* of fetch_main_page; omitted: it logged "Omitting non-talk session".
Locals(cd, tt, sbd, raised, omitted) ==
  [current_day |-> cd, time_text |-> tt, sessions_by_day |-> sbd,
   raised |-> raised, omitted |-> omitted]

\* A row with a wide cell whose text always becomes the day.
day_header_row_any_text(row, cd, tt, sbd) ==
  Locals(td_day(row).text, tt, sbd, FALSE, FALSE)

\* A row with a wide cell (lines 82-88).
day_header_row(row, cd, tt, sbd) ==
  LET text == td_day(row).text
  IN  Locals(IF day_pattern_search(text) THEN text ELSE cd, tt, sbd, FALSE, FALSE)

\* "Filter out non-talk sessions" of a slot-start row (lines 116-118).
omit_slot_start(session_title) == ~is_talk_session(session_title)

\* len(tds) == 3 (lines 96-129).
slot_start_row(row, cd, tt, sbd) ==
  LET time_text     == row[1].text
      times         == extract_time(time_text)
      session_title == clean_session_title(row[2].text)
      session       == [start_time |-> times[1],
                        end_time   |-> times[2],
                        title      |-> session_title,
                        link       |-> urljoin(url, row[2].href),
                        location   |-> row[3].text]
  IN  IF times[1] = None \/ ~row[2].has_link
      THEN Locals(cd, time_text, sbd, FALSE, FALSE)
      ELSE IF omit_slot_start(session_title)
      THEN Locals(cd, time_text, sbd, FALSE, TRUE)
      ELSE Locals(cd, time_text, AppendTo(sbd, cd, session), FALSE, FALSE)

\* A continuation row that copies from the day's first session.
inherited_from_first(sessions, tt) ==
  IF sessions # <<>>
  THEN [location   |-> sessions[1].location,
        start_time |-> sessions[1].start_time,
        end_time   |-> sessions[1].end_time]
  ELSE [location   |-> <<"">>,
        start_time |-> extract_time(tt)[1],
        end_time   |-> extract_time(tt)[2]]

\* Where a continuation row takes its location and times from (lines
\* 150-157): the day's last session, or else time_text with no location.
inherited(sessions, tt) ==
  IF sessions # <<>>
  THEN LET last_session == sessions[Len(sessions)]
       IN  [location   |-> last_session.location,
            start_time |-> last_session.start_time,
            end_time   |-> last_session.end_time]
  ELSE [location   |-> <<"">>,
        start_time |-> extract_time(tt)[1],
        end_time   |-> extract_time(tt)[2]]

\* A continuation row that is never filtered.
omit_continuation_never(session_title) == FALSE

\* "Filter out non-talk sessions" of a continuation row (lines 160-162).
omit_continuation(session_title) == ~is_talk_session(session_title)

\* len(tds) == 2 (lines 131-173).  Reading sessions_by_day[current_day] at
\* line 150 inserts the key; extract_time(time_text) at line 157 raises
\* UnboundLocalError when no three-cell row has bound time_text.
continuation_row(row, cd, tt, sbd) ==
  LET session_title == IF row[1].has_link
                       THEN clean_session_title(row[1].text)
                       ELSE row[1].text
      session_link  == IF row[1].has_link THEN urljoin(url, row[1].href) ELSE HashLink
      seen          == Put(sbd, cd, Get(sbd, cd))
      from          == inherited(Get(sbd, cd), tt)
      session       == [start_time |-> from.start_time,
                        end_time   |-> from.end_time,
                        title      |-> session_title,
                        link       |-> session_link,
                        location   |-> from.location]
  IN  IF cd = None
      THEN Locals(cd, tt, sbd, FALSE, FALSE)
      ELSE IF Get(sbd, cd) = <<>> /\ tt = Unbound
      THEN Locals(cd, tt, seen, TRUE, FALSE)
      ELSE IF omit_continuation(session_title)
      THEN Locals(cd, tt, seen, FALSE, TRUE)
      ELSE Locals(cd, tt, AppendTo(seen, cd, session), FALSE, FALSE)

\* The grouping pass (lines 179-182): day -> start_time -> list of sessions.
RECURSIVE GroupSessions(_, _, _)
GroupSessions(grouped, day, sessions) ==
  IF sessions = <<>>
  THEN grouped
  ELSE LET s     == Head(sessions)
           times == Get(grouped, day)
       IN  GroupSessions(Put(grouped, day, AppendTo(times, s.start_time, s)),
                         day, Tail(sessions))

RECURSIVE GroupDays(_, _)
GroupDays(grouped, sbd) ==
  IF sbd = <<>>
  THEN grouped
  ELSE GroupDays(GroupSessions(grouped, Head(sbd).key, Head(sbd).val), Tail(sbd))

group_sessions(sbd) == GroupDays(<<>>, sbd)

\* Every session of a day -> key -> list dictionary, in order.
RECURSIVE AllSessions(_)
AllSessions(byDay) ==
  IF byDay = <<>> THEN <<>> ELSE Values(Head(byDay).val) \o AllSessions(Tail(byDay))


(***************************************************************************)
(* Times of day and dates: datetime.strptime / strftime                    *)
(***************************************************************************)
DigitVal(c) == Ord(c) - 48

\* The failure of a parse (ValueError).
Invalid == -1

\* datetime.strptime(s, '%I:%M %p') as minutes after midnight, or Invalid.
\* %I is 1[0-2]|0[1-9]|[1-9], %M is [0-5]\d|\d, the blank of the format is
\* \s+, %p is am|pm in any case, and nothing may follow.
parse_time(s) ==
  LET colon == IF Len(s) >= 2 /\ s[2] = ":" THEN 2
               ELSE IF Len(s) >= 3 /\ s[3] = ":" THEN 3 ELSE 0
      hourOk == \/ /\ colon = 2
                   /\ IsDigit(s[1]) /\ DigitVal(s[1]) >= 1
                \/ /\ colon = 3
                   /\ \/ s[1] = "1" /\ IsDigit(s[2]) /\ DigitVal(s[2]) <= 2
                      \/ s[1] = "0" /\ IsDigit(s[2]) /\ DigitVal(s[2]) >= 1
      hour   == IF colon = 2 THEN DigitVal(s[1])
                ELSE 10 * DigitVal(s[1]) + DigitVal(s[2])
      m1     == colon + 1
      two    == /\ m1 + 1 <= Len(s)
                /\ IsDigit(s[m1]) /\ DigitVal(s[m1]) <= 5
                /\ IsDigit(s[m1 + 1])
      one    == m1 <= Len(s) /\ IsDigit(s[m1])
      minute == IF two THEN 10 * DigitVal(s[m1]) + DigitVal(s[m1 + 1])
                ELSE DigitVal(s[m1])
      blank  == IF two THEN m1 + 2 ELSE m1 + 1
      ampm   == SkipSpaces(s, blank)
  IN  IF /\ colon > 0
         /\ hourOk
         /\ (two \/ one)
         /\ ampm > blank
         /\ IsAmPmAt(s, ampm)
         /\ ampm + 1 = Len(s)
      THEN (IF hour = 12 THEN 0 ELSE hour) * 60 + minute
           + (IF Lower(s[ampm]) = "p" THEN 720 ELSE 0)
      ELSE Invalid

Digit(n) == Ascii[n + 48 - 31]

\* dt.strftime('%I:%M %p').lstrip('0')
format_time(minutes) ==
  LET h24 == minutes \div 60
      h12 == IF h24 % 12 = 0 THEN 12 ELSE h24 % 12
      mm  == minutes % 60
  IN  LStripChar(<<Digit(h12 \div 10), Digit(h12 % 10), ":",
                   Digit(mm \div 10), Digit(mm % 10), " ",
                   IF h24 >= 12 THEN "P" ELSE "A", "M">>, "0")

\* str(x) of an f-string.
Str(x) == IF x = None THEN <<"N", "o", "n", "e">> ELSE x

\* x.split(' - ')[0]
BeforeDash(x) ==
  LET sep  == <<" ", "-", " ">>
      hits == {i \in 1..Len(x) : StartsWithAt(x, sep, i)}
  IN  IF hits = {} THEN x
      ELSE SubSeq(x, 1, (CHOOSE i \in hits : \A j \in hits : i <= j) - 1)

\* datetime.strptime(field, '%B %d') as 100 * month + day, or Invalid.
MonthDays ==
  [field \in {"January 20", "January 21", "January 22"} |->
     CASE field = "January 20" -> 120
       [] field = "January 21" -> 121
       [] field = "January 22" -> 122]

parse_date(field) ==
  IF field \in DOMAIN MonthDays THEN MonthDays[field] ELSE Invalid

\* The sort key of a day (line 296): Invalid stands for the exception raised
\* on None (no split), on a label without a second field, or on a field that
\* is no '%B %d' date.
day_key(day) ==
  IF day = None \/ Len(day) < 2 THEN Invalid ELSE parse_date(day[2])

\* A key that is the same for every time range.
time_range_key_flat(time_range) == 0

\* The sort key of a time range (line 304), Invalid for the exception.
time_range_key(time_range) ==
  IF time_range = None THEN Invalid ELSE parse_time(BeforeDash(time_range))

(***************************************************************************)
(* sorted(): a stable insertion sort by key                                *)
(***************************************************************************)
\* Python's < on two keys: datetimes (numbers here) or strings.
KeyLess(a, b, numeric) == IF numeric THEN a < b ELSE StrLess(a, b)

\* x put after every element whose key is not greater than its own; the
\* elements are [key, item].
RECURSIVE InsertSorted(_, _, _)
InsertSorted(sorted, x, numeric) ==
  IF sorted = <<>> THEN <<x>>
  ELSE IF KeyLess(x.key, Head(sorted).key, numeric) THEN <<x>> \o sorted
  ELSE <<Head(sorted)>> \o InsertSorted(Tail(sorted), x, numeric)

RECURSIVE SortedFrom(_, _, _)
SortedFrom(sorted, rest, numeric) ==
  IF rest = <<>> THEN sorted
  ELSE SortedFrom(InsertSorted(sorted, Head(rest), numeric), Tail(rest), numeric)

\* sorted(items, key=...) given the items and their keys.
Sorted(items, keys, numeric) ==
  LET keyed == SortedFrom(<<>>,
                          [i \in 1..Len(items) |-> [key |-> keys[i], item |-> items[i]]],
                          numeric)
  IN  [i \in 1..Len(keyed) |-> keyed[i].item]

(***************************************************************************)
(* fetch_session_details                                                   *)
(*                                                                         *)
(* A response is [ok, page]: ok is FALSE for a RequestException; the page  *)
(* is the sequence of its <dt> entries [has_strong, strong, has_anchor,    *)
(* href].                                                                  *)
(***************************************************************************)
SessionHost == "https://meetings.siam.org"

\* A check that every link passes.
is_any_url(link) == TRUE

\* session_url.startswith("https://meetings.siam.org/sess")
is_session_url(link) ==
  /\ link.host = SessionHost
  /\ Len(link.path) >= 1
  /\ StartsWithAt(link.path[1], <<"s", "e", "s", "s">>, 1)

\* urljoin raises ValueError on an href such as "http://[" ("Invalid IPv6 URL").
urljoin_raises(href) == href.host = "http://["

\* One <dt> (lines 210-214).
talk_of(session_url, dt) ==
  [title |-> IF dt.has_strong THEN dt.strong ELSE <<"Unknown Title">>,
   link  |-> IF dt.has_anchor THEN urljoin(session_url, dt.href) ELSE HashLink]

\* The task's result: [raised, talks].  The RequestException is caught inside
\* (lines 202-204); an exception of the parse is not.
fetch_session_details(session_url, response) ==
  IF ~is_session_url(session_url) THEN [raised |-> FALSE, talks |-> <<>>]
  ELSE IF ~response.ok THEN [raised |-> FALSE, talks |-> <<>>]
  ELSE IF \E i \in 1..Len(response.page) :
            response.page[i].has_anchor /\ urljoin_raises(response.page[i].href)
  THEN [raised |-> TRUE, talks |-> <<>>]
  ELSE [raised |-> FALSE,
        talks  |-> [i \in 1..Len(response.page) |->
                      talk_of(session_url, response.page[i])]]

(***************************************************************************)
(* fetch_all_session_details                                               *)
(***************************************************************************)
max_workers == 10

\* A label made of the first end_time of the group.
time_range_of_first_end(start_time, sessions) ==
  LET ends == {i \in 1..Len(sessions) : sessions[i].end_time # None}
      first == CHOOSE i \in ends : \A j \in ends : i <= j
  IN  IF ends = {} \/ parse_time(sessions[first].end_time) = Invalid
      THEN start_time
      ELSE Str(start_time) \o <<" ", "-", " ">>
             \o format_time(parse_time(sessions[first].end_time))

\* The label of a (day, start_time) group (lines 230-242).
time_range_of(start_time, sessions) ==
  LET ends   == {i \in 1..Len(sessions) : sessions[i].end_time # None}
      parsed == {parse_time(sessions[i].end_time) : i \in ends}
      latest == CHOOSE m \in parsed : \A n \in parsed : n <= m
  IN  IF ends = {} \/ Invalid \in parsed
      THEN start_time
      ELSE Str(start_time) \o <<" ", "-", " ">> \o format_time(latest)

\* The futures of one group, one day, the whole structure, in the order of
\* submission (lines 227-246).
TasksOfGroup(day, start_time, sessions) ==
  [i \in 1..Len(sessions) |->
     [day          |-> day,
      time_range   |-> time_range_of(start_time, sessions),
      conf_session |-> sessions[i],
      state        |-> "queued",
      raised       |-> FALSE,
      talks        |-> <<>>]]

RECURSIVE TasksOfDay(_, _)
TasksOfDay(day, times) ==
  IF times = <<>> THEN <<>>
  ELSE TasksOfGroup(day, Head(times).key, Head(times).val)
         \o TasksOfDay(day, Tail(times))

RECURSIVE TasksOf(_)
TasksOf(grouped) ==
  IF grouped = <<>> THEN <<>>
  ELSE TasksOfDay(Head(grouped).key, Head(grouped).val) \o TasksOf(Tail(grouped))

\* The body of the as_completed loop (lines 249-259): a result is appended
\* under the task's day and time range; future.result() re-raises the task's
\* exception, which is logged, and nothing is appended.
merge(all_talks, task) ==
  IF task.raised THEN all_talks
  ELSE Put(all_talks, task.day,
           AppendTo(Get(all_talks, task.day), task.time_range,
                    [title |-> task.conf_session.title,
                     link  |-> task.conf_session.link,
                     talks |-> task.talks]))

(***************************************************************************)
(* determine_max_concurrent_sessions, generate_html                        *)
(*                                                                         *)
(* The document is the sequence of its table rows                          *)
(*   [kind, colspan, day, cells, em]                                       *)
(* kind "day": the header of a day, spanning colspan columns;              *)
(* kind "single": one cell spanning colspan columns, em the time range     *)
(*   shown when the session has no talks;                                  *)
(* kind "multi": one cell per column.                                      *)
(* A cell is [empty, title, link, talks].                                  *)
(***************************************************************************)
\* Every list of sessions of the structure, in order.
RECURSIVE Groups(_)
Groups(all_talks) ==
  IF all_talks = <<>> THEN <<>>
  ELSE [i \in 1..Len(Head(all_talks).val) |-> Head(all_talks).val[i].val]
         \o Groups(Tail(all_talks))

RECURSIVE MaxLen(_, _)
MaxLen(groups, max_sessions) ==
  IF groups = <<>> THEN max_sessions
  ELSE MaxLen(Tail(groups),
              IF Len(Head(groups)) > max_sessions THEN Len(Head(groups))
              ELSE max_sessions)

\* A count that stops at the first group.
determine_first_group(all_talks) == Len(Groups(all_talks)[1])

determine_max_concurrent_sessions(all_talks) == MaxLen(Groups(all_talks), 0)

\* title.replace('ALENEX', 'Z'), from position i on.
RECURSIVE ReplaceFrom(_, _)
ReplaceFrom(title, i) ==
  IF i > Len(title) THEN <<>>
  ELSE IF StartsWithAt(title, <<"A", "L", "E", "N", "E", "X">>, i)
  THEN <<"Z">> \o ReplaceFrom(title, i + 6)
  ELSE <<title[i]>> \o ReplaceFrom(title, i + 1)

\* The sort key of a session within its row (line 330).
session_key(session) == ReplaceFrom(session.title, 1)

SessionCell(session) ==
  [empty |-> FALSE, title |-> session.title, link |-> session.link,
   talks |-> session.talks]

EmptyCell == [empty |-> TRUE, title |-> <<>>, link |-> HashLink, talks |-> <<>>]

\* The row of one time range (lines 306-352).
time_range_row(time_range, sessions, max_concurrent_sessions) ==
  IF Len(sessions) = 1
  THEN [kind    |-> "single",
        colspan |-> max_concurrent_sessions,
        day     |-> <<>>,
        cells   |-> <<SessionCell(sessions[1])>>,
        em      |-> IF sessions[1].talks = <<>> THEN <<time_range>> ELSE <<>>]
  ELSE LET ordered == Sorted(sessions,
                             [i \in 1..Len(sessions) |-> session_key(sessions[i])],
                             FALSE)
       IN  [kind    |-> "multi",
            colspan |-> 1,
            day     |-> <<>>,
            cells   |-> [i \in 1..max_concurrent_sessions |->
                           IF i <= Len(ordered) THEN SessionCell(ordered[i])
                           ELSE EmptyCell],
            em      |-> <<>>]

\* The rows of one day (lines 297-352).
day_rows(day, times, max_concurrent_sessions) ==
  LET sorted_time_ranges ==
        Sorted(Keys(times), [i \in 1..Len(times) |-> time_range_key(times[i].key)], TRUE)
  IN  <<[kind |-> "day", colspan |-> max_concurrent_sessions, day |-> day,
         cells |-> <<>>, em |-> <<>>]>>
      \o [i \in 1..Len(sorted_time_ranges) |->
            time_range_row(sorted_time_ranges[i], Get(times, sorted_time_ranges[i]),
                           max_concurrent_sessions)]

RECURSIVE RowsOfDays(_, _, _)
RowsOfDays(days, all_talks, max_concurrent_sessions) ==
  IF days = <<>> THEN <<>>
  ELSE day_rows(Head(days), Get(all_talks, Head(days)), max_concurrent_sessions)
         \o RowsOfDays(Tail(days), all_talks, max_concurrent_sessions)

\* Whether a sort key of generate_html raises (lines 296, 304).
generate_html_raises(all_talks) ==
  \E i \in 1..Len(all_talks) :
     \/ day_key(all_talks[i].key) = Invalid
     \/ \E j \in 1..Len(all_talks[i].val) :
           time_range_key(all_talks[i].val[j].key) = Invalid

\* The table of the document, when no key raises.
generate_html(all_talks, max_concurrent_sessions) ==
  RowsOfDays(Sorted(Keys(all_talks),
                    [i \in 1..Len(all_talks) |-> day_key(all_talks[i].key)], TRUE),
             all_talks, max_concurrent_sessions)

(***************************************************************************)
(* Input documents                                                         *)
(***************************************************************************)
Cell(text)         == [colspan |-> FALSE, text |-> text, has_link |-> FALSE,
                       href |-> HashLink]
WideCell(text)     == [colspan |-> TRUE, text |-> text, has_link |-> FALSE,
                       href |-> HashLink]
LinkCell(text, href) == [colspan |-> FALSE, text |-> text, has_link |-> TRUE,
                       href |-> href]

\* Relative hrefs of session pages, and an absolute href elsewhere.
HrefSess1 == [host |-> "", path |-> << <<"s", "e", "s", "s">>, <<"1">> >>]
HrefSess2 == [host |-> "", path |-> << <<"s", "e", "s", "s">>, <<"2">> >>]
HrefOther == [host |-> "https://example.org", path |-> << <<"x">> >>]

Monday  == <<"Monday", "January 20">>
Tuesday == <<"Tuesday", "January 21">>
Ballroom_A == <<"Ballroom A">>
Ballroom_B == <<"Ballroom B">>

Time_9AM    == <<"9", ":", "0", "0", " ", "A", "M">>
Time_1030AM == <<"1", "0", ":", "3", "0", " ", "A", "M">>
Time_11AM   == <<"1", "1", ":", "0", "0", " ", "A", "M">>
Time_2PM    == <<"2", ":", "0", "0", " ", "P", "M">>
Time_9AM_tight == <<"9", ":", "0", "0", "A", "M">>
Time_11AM_tight == <<"1", "1", ":", "0", "0", "A", "M">>
Dash        == <<" ", "-", " ">>
Text_TBD    == <<"T", "B", "D">>

Title_IP      == <<"I", "P", " ", "1">>
Title_Lunch   == <<"L", "u", "n", "c", "h">>
Title_CPLunch == <<"C", "P", "1", " ", "L", "u", "n", "c", "h">>
Title_CPSoda  == <<"C", "P", "2", " ", "s", "o", "d", "a">>

\* The rows of the scanner's specification.
ScanRows ==
  { <<WideCell(Monday)>>, <<WideCell(Tuesday)>>, <<WideCell(<<"Schedule">>)>> }
  \cup
  { <<Cell(tl[1]), c, Cell(tl[2])>> :
      tl \in { <<Time_9AM \o Dash \o Time_1030AM, Ballroom_A>>,
               <<Time_9AM \o Dash \o Time_1030AM, Ballroom_B>>,
               <<Time_9AM \o Dash \o Time_11AM, Ballroom_A>>,
               <<Time_2PM, Ballroom_A>>,
               <<Text_TBD, Ballroom_A>> },
      c \in { LinkCell(Title_IP, HrefSess1),
              LinkCell(Title_Lunch, HrefOther),
              Cell(Title_IP) } }
  \cup
  { <<c, Cell(Ballroom_A)>> :
      c \in { LinkCell(Title_CPSoda, HrefSess2),
              LinkCell(Title_CPLunch, HrefSess2),
              Cell(Title_CPLunch),
              Cell(Title_Lunch) } }
  \cup
  { <<>>, <<Cell(Title_IP)>>,
    <<Cell(Time_2PM), Cell(Title_IP), Cell(Ballroom_A), Cell(Title_Lunch)>> }
  \cup
  \* an end time that extract_time takes and strptime does not
  { <<Cell(Time_9AM \o Dash \o Time_11AM_tight), LinkCell(Title_IP, HrefSess1),
      Cell(Ballroom_A)>> }
  \cup
  \* rows of session cells one of which has a colspan
  { <<Cell(Time_2PM), LinkCell(Title_IP, HrefSess1), WideCell(Ballroom_A)>>,
    <<LinkCell(Title_CPSoda, HrefSess2), WideCell(Tuesday)>> }

\* The longest document scanned.
MaxRows == 4

(***************************************************************************)
(* State                                                                   *)
(***************************************************************************)
VARIABLES
  pc,                \* where main is
  nrows,             \* rows scanned so far
  current_day,       \* fetch_main_page's locals
  time_text,
  sessions_by_day,
  grouped_sessions,  \* fetch_main_page's result
  last_kind,         \* the shape of the row scanned last
  slot_time,         \* <<start, end>> of the last slot-start row of this day
  omitted,           \* the row shapes logged as "Omitting non-talk session"
  tasks,             \* future_to_session, in the order of submission
  all_talks_by_day,  \* the merged accumulator
  max_sessions,      \* main's max_sessions
  html,              \* main's html_output, as the rows of its table
  http_session,      \* the cookies of the module's requests.Session
  session_requests   \* the links http_session.get was called with by the tasks

scan_vars ==
  <<nrows, current_day, time_text, sessions_by_day, last_kind, slot_time, omitted>>

\* The one requests.Session of the module (lines 19-23), used by every task
\* (line 199), and what the tasks asked of it.
net_vars == <<http_session, session_requests>>

fetch_vars == <<tasks, all_talks_by_day, net_vars>>

render_vars == <<max_sessions, html>>

vars == <<pc, scan_vars, grouped_sessions, fetch_vars, render_vars>>

InitScan ==
  /\ pc = "scan"
  /\ nrows = 0
  /\ current_day = None
  /\ time_text = Unbound
  /\ sessions_by_day = <<>>
  /\ grouped_sessions = <<>>
  /\ last_kind = "none"
  /\ slot_time = <<None, None>>
  /\ omitted = {}
  /\ tasks = <<>>
  /\ all_talks_by_day = <<>>
  /\ max_sessions = 0
  /\ html = <<>>
  /\ http_session = {}
  /\ session_requests = {}

\* The loop body's effect on the locals; an exception leaves fetch_main_page
\* and main.
Scanned(after, kind) ==
  /\ nrows' = nrows + 1
  /\ omitted' = IF after.omitted THEN omitted \cup {kind} ELSE omitted
  /\ current_day' = after.current_day
  /\ time_text' = after.time_text
  /\ sessions_by_day' = after.sessions_by_day
  /\ last_kind' = kind
  /\ pc' = IF after.raised THEN "crashed" ELSE "scan"
  /\ UNCHANGED <<grouped_sessions, fetch_vars, render_vars>>

CanScan(limit) == pc = "scan" /\ nrows < limit

ScanDayHeader(rows, limit) ==
  \E row \in rows :
     /\ CanScan(limit)
     /\ has_td_day(row)
     /\ Scanned(day_header_row(row, current_day, time_text, sessions_by_day),
                IF Len(row) = 1 THEN "day" ELSE "wide")
     /\ slot_time' = IF day_pattern_search(td_day(row).text)
                     THEN <<None, None>> ELSE slot_time

ScanSlotStart(rows, limit) ==
  \E row \in rows :
     /\ CanScan(limit)
     /\ ~has_td_day(row)
     /\ Len(row) = 3
     /\ Scanned(slot_start_row(row, current_day, time_text, sessions_by_day), "slot")
     /\ slot_time' = IF extract_time(row[1].text)[1] # None
                     THEN extract_time(row[1].text) ELSE slot_time

ScanContinuation(rows, limit) ==
  \E row \in rows :
     /\ CanScan(limit)
     /\ ~has_td_day(row)
     /\ Len(row) = 2
     /\ Scanned(continuation_row(row, current_day, time_text, sessions_by_day),
                IF row[1].has_link THEN "cont_link" ELSE "cont_text")
     /\ UNCHANGED slot_time

\* No <td> at all, or a cell count other than 2 and 3 (lines 92-93, 174-176).
ScanOther(rows, limit) ==
  \E row \in rows :
     /\ CanScan(limit)
     /\ ~has_td_day(row)
     /\ Len(row) \notin {2, 3}
     /\ Scanned(Locals(current_day, time_text, sessions_by_day, FALSE, FALSE), "other")
     /\ UNCHANGED slot_time

\* The document ends: the grouping pass, and fetch_main_page returns.
EndScan ==
  /\ pc = "scan"
  /\ grouped_sessions' = group_sessions(sessions_by_day)
  /\ pc' = "grouped"
  /\ UNCHANGED <<scan_vars, fetch_vars, render_vars>>

NextScan ==
  \/ ScanDayHeader(ScanRows, MaxRows)
  \/ ScanSlotStart(ScanRows, MaxRows)
  \/ ScanContinuation(ScanRows, MaxRows)
  \/ ScanOther(ScanRows, MaxRows)
  \/ EndScan

SpecScan == InitScan /\ [][NextScan]_vars


(***************************************************************************)
(* main: the fetch stage and the rendering                                 *)
(***************************************************************************)
\* The answers of the network to the request of a session page.
Dt(strong, href) ==
  [has_strong |-> TRUE, strong |-> strong, has_anchor |-> TRUE, href |-> href]

DtPlain ==
  [has_strong |-> FALSE, strong |-> <<>>, has_anchor |-> FALSE, href |-> HashLink]

HrefTalk == [host |-> "", path |-> << <<"t", "a", "l", "k">> >>]
HrefBad  == [host |-> "http://[", path |-> <<>>]

\* set_cookie: the Set-Cookie headers of the response, which requests stores
\* in the session that sent the request.
RequestFailed == [ok |-> FALSE, page |-> <<>>, set_cookie |-> {}]
PageTalks     == [ok |-> TRUE, page |-> <<Dt(<<"Talk">>, HrefTalk), DtPlain>>,
                  set_cookie |-> {"CFID"}]
PageBadHref   == [ok |-> TRUE, page |-> <<Dt(<<"Talk">>, HrefBad)>>,
                  set_cookie |-> {}]

Responses == {RequestFailed, PageTalks, PageBadHref}

\* The rows of the documents of the whole pipeline, and their longest.
PipeRows ==
  { <<WideCell(Monday)>>,
    <<Cell(Time_9AM \o Dash \o Time_1030AM), LinkCell(Title_IP, HrefSess1),
      Cell(Ballroom_A)>>,
    <<Cell(Time_2PM), LinkCell(Title_CPSoda, HrefSess1), Cell(Ballroom_B)>>,
    <<Cell(Time_9AM_tight), LinkCell(Title_IP, HrefOther), Cell(Ballroom_A)>>,
    <<LinkCell(Title_IP, HrefSess2), Cell(Ballroom_A)>>,
    <<Cell(Title_IP), Cell(Ballroom_A)>>,
    <<Cell(Title_Lunch)>> }

MaxDocRows == 3

Running == {i \in 1..Len(tasks) : tasks[i].state = "running"}

Queued == {i \in 1..Len(tasks) : tasks[i].state = "queued"}

\* A loop that ends with its first future.
SomeDrained == \E i \in 1..Len(tasks) : tasks[i].state = "drained"

\* as_completed has yielded every future (line 248).
AllDrained == \A i \in 1..Len(tasks) : tasks[i].state = "drained"

\* main, lines 383-385: nothing was parsed.
StopNoSessions ==
  /\ pc = "grouped"
  /\ grouped_sessions = <<>>
  /\ pc' = "stopped"
  /\ UNCHANGED <<scan_vars, grouped_sessions, fetch_vars, render_vars>>

\* The submit loop (lines 227-246): one future per session.
FetchSubmit ==
  /\ pc = "grouped"
  /\ grouped_sessions # <<>>
  /\ tasks' = TasksOf(grouped_sessions)
  /\ pc' = "fetching"
  /\ UNCHANGED <<scan_vars, grouped_sessions, all_talks_by_day, net_vars, render_vars>>

\* A worker of the pool takes the oldest queued future.
StartTask ==
  /\ pc = "fetching"
  /\ Queued # {}
  /\ Cardinality(Running) < max_workers
  /\ LET i == CHOOSE q \in Queued : \A r \in Queued : q <= r
     IN  tasks' = [tasks EXCEPT ![i].state = "running"]
  /\ UNCHANGED <<pc, scan_vars, grouped_sessions, all_talks_by_day, net_vars, render_vars>>

\* A worker that appends its own result to the accumulator.
CompleteAndMerge ==
  \E i \in Running, response \in Responses :
     /\ pc = "fetching"
     /\ is_session_url(tasks[i].conf_session.link) \/ response = RequestFailed
     /\ LET result == fetch_session_details(tasks[i].conf_session.link, response)
        IN  /\ tasks' = [tasks EXCEPT ![i].state = "done",
                                      ![i].raised = result.raised,
                                      ![i].talks = result.talks]
            /\ all_talks_by_day' = merge(all_talks_by_day, tasks'[i])
     /\ UNCHANGED <<pc, scan_vars, grouped_sessions, net_vars, render_vars>>

\* fetch_session_details returns or raises in its worker.  Past the prefix
\* check it calls http_session.get (line 199), which keeps the cookies of the
\* response in the session; before it no response is read, so that one
\* response stands for all.
Complete(i, response) ==
  /\ pc = "fetching"
  /\ is_session_url(tasks[i].conf_session.link) \/ response = RequestFailed
  /\ LET result == fetch_session_details(tasks[i].conf_session.link, response)
     IN  tasks' = [tasks EXCEPT ![i].state = "done",
                                ![i].raised = result.raised,
                                ![i].talks = result.talks]
  /\ IF is_session_url(tasks[i].conf_session.link)
     THEN /\ session_requests' = session_requests \cup {tasks[i].conf_session.link}
          /\ http_session' = http_session \cup response.set_cookie
     ELSE UNCHANGED net_vars
  /\ UNCHANGED <<pc, scan_vars, grouped_sessions, all_talks_by_day, render_vars>>

CompleteTask == \E i \in Running, response \in Responses : Complete(i, response)

\* The return at line 196, which waits for nothing.
ReturnEarly ==
  \E i \in Running :
     ~is_session_url(tasks[i].conf_session.link) /\ Complete(i, RequestFailed)

\* One turn of the as_completed loop (lines 248-259), on any finished future.
DrainTask ==
  \E i \in 1..Len(tasks) :
     /\ pc = "fetching"
     /\ tasks[i].state = "done"
     /\ all_talks_by_day' = merge(all_talks_by_day, tasks[i])
     /\ tasks' = [tasks EXCEPT ![i].state = "drained"]
     /\ UNCHANGED <<pc, scan_vars, grouped_sessions, net_vars, render_vars>>

\* The loop and the with block end; fetch_all_session_details returns.
FetchReturn ==
  /\ pc = "fetching"
  /\ AllDrained
  /\ pc' = "fetched"
  /\ UNCHANGED <<scan_vars, grouped_sessions, fetch_vars, render_vars>>

\* A main that goes on to count the columns of an empty structure.
CountNoDetails ==
  /\ pc = "fetched"
  /\ all_talks_by_day = <<>>
  /\ max_sessions' = determine_max_concurrent_sessions(all_talks_by_day)
  /\ pc' = "counted"
  /\ UNCHANGED <<scan_vars, grouped_sessions, fetch_vars, html>>

\* main, lines 390-392: nothing was fetched.
StopNoDetails ==
  /\ pc = "fetched"
  /\ all_talks_by_day = <<>>
  /\ pc' = "stopped"
  /\ UNCHANGED <<scan_vars, grouped_sessions, fetch_vars, render_vars>>

\* main, line 395.
DetermineMax ==
  /\ pc = "fetched"
  /\ all_talks_by_day # <<>>
  /\ max_sessions' = determine_max_concurrent_sessions(all_talks_by_day)
  /\ pc' = "counted"
  /\ UNCHANGED <<scan_vars, grouped_sessions, fetch_vars, html>>

\* main, line 399: the document, or the exception of a sort key.
GenerateHtml ==
  /\ pc = "counted"
  /\ IF generate_html_raises(all_talks_by_day)
     THEN pc' = "crashed" /\ UNCHANGED html
     ELSE pc' = "rendered" /\ html' = generate_html(all_talks_by_day, max_sessions)
  /\ UNCHANGED <<scan_vars, grouped_sessions, fetch_vars, max_sessions>>

\* fetch_main_page, lines 58-64: the request of the main page fails, and the
\* empty structure is returned.
MainPageFails ==
  /\ pc = "scan"
  /\ nrows = 0
  /\ grouped_sessions' = <<>>
  /\ last_kind' = "failed"
  /\ pc' = "grouped"
  /\ UNCHANGED <<nrows, current_day, time_text, sessions_by_day, slot_time, omitted,
                 fetch_vars, render_vars>>

Init == InitScan

\* The scanner followed by the submit loop of the fetch stage, on documents
\* of slots with every time text, with a link or without.
DispatchRows ==
  { <<WideCell(Monday)>>, <<WideCell(Tuesday)>>, <<>> }
  \cup
  { <<Cell(time), LinkCell(Title_IP, HrefSess1), Cell(Ballroom_A)>> :
      time \in { Time_9AM \o Dash \o Time_1030AM,
                 Time_9AM \o Dash \o Time_11AM,
                 Time_9AM \o Dash \o Time_11AM_tight,
                 Time_2PM,
                 Text_TBD } }
  \cup
  { <<LinkCell(Title_CPSoda, HrefSess2), Cell(Ballroom_A)>>,
    <<Cell(Title_Lunch), Cell(Ballroom_A)>> }

NextDispatch ==
  \/ ScanDayHeader(DispatchRows, MaxRows)
  \/ ScanSlotStart(DispatchRows, MaxRows)
  \/ ScanContinuation(DispatchRows, MaxRows)
  \/ ScanOther(DispatchRows, MaxRows)
  \/ EndScan
  \/ StopNoSessions
  \/ FetchSubmit

SpecDispatch == InitScan /\ [][NextDispatch]_vars

Next ==
  \/ MainPageFails
  \/ ScanDayHeader(PipeRows, MaxDocRows)
  \/ ScanSlotStart(PipeRows, MaxDocRows)
  \/ ScanContinuation(PipeRows, MaxDocRows)
  \/ ScanOther(PipeRows, MaxDocRows)
  \/ EndScan
  \/ StopNoSessions
  \/ FetchSubmit
  \/ StartTask
  \/ CompleteTask
  \/ DrainTask
  \/ FetchReturn
  \/ StopNoDetails
  \/ DetermineMax
  \/ GenerateHtml

Spec == Init /\ [][Next]_vars

\* The threads of the pool and main's thread are scheduled fairly: a queued
\* future gets a free worker, a call that makes no request returns, a
\* finished future is yielded by as_completed, and main goes on after each
\* call.  http_session.get is called without a timeout (line 199, and none in
\* the Retry of line 20), so that nothing makes a request return: a worker
\* inside it may wait for ever, and its step has no fairness.
Fairness ==
  /\ WF_vars(EndScan)
  /\ WF_vars(StopNoSessions)
  /\ WF_vars(FetchSubmit)
  /\ WF_vars(StartTask)
  /\ WF_vars(ReturnEarly)
  /\ WF_vars(DrainTask)
  /\ WF_vars(FetchReturn)

SpecFair == Init /\ [][Next]_vars /\ Fairness

(***************************************************************************)
(* The renderer on merged structures of any shape: sessions are merged in  *)
(* any order, as the completions of their fetches allow, and then main     *)
(* goes on as above.                                                       *)
(***************************************************************************)
Title_ALENEX   == <<"A", "L", "E", "N", "E", "X">>
Title_Zed      == <<"Z", "e", "d", " ", "I", "P">>
Title_lower    == <<"i", "p", " ", "2">>
Title_myALENEX == <<"m", "y", " ", "A", "L", "E", "N", "E", "X">>

RenderTitles == {Title_IP, Title_ALENEX, Title_Zed, Title_lower, Title_myALENEX}

\* A session as the scanner files it, and its finished future.
ScannedSession(start_time, end_time, title) ==
  [start_time |-> start_time, end_time |-> end_time, title |-> title,
   link |-> urljoin(url, HrefSess1), location |-> Ballroom_A]

FinishedTask(day, session, talks) ==
  [day          |-> day,
   time_range   |-> time_range_of(session.start_time, <<session>>),
   conf_session |-> session,
   state        |-> "done",
   raised       |-> FALSE,
   talks        |-> talks]

\* The finished futures merged: a slot of any titles, and two slots of one
\* title, with and without talks.
RenderTasks ==
  { FinishedTask(Monday, ScannedSession(Time_9AM, Time_1030AM, title), <<>>) :
      title \in RenderTitles }
  \cup
  { FinishedTask(Monday, ScannedSession(Time_2PM, None, Title_IP), talks) :
      talks \in {<<>>, fetch_session_details(urljoin(url, HrefSess1), PageTalks).talks} }
  \cup
  { FinishedTask(Tuesday, ScannedSession(Time_9AM, Time_1030AM, Title_IP), <<>>) }

\* The most sessions merged.
MaxEntries == 5

InitRender ==
  /\ pc = "merging"
  /\ nrows = 0
  /\ current_day = None
  /\ time_text = Unbound
  /\ sessions_by_day = <<>>
  /\ grouped_sessions = <<>>
  /\ last_kind = "none"
  /\ slot_time = <<None, None>>
  /\ omitted = {}
  /\ tasks = <<>>
  /\ all_talks_by_day = <<>>
  /\ max_sessions = 0
  /\ html = <<>>
  /\ http_session = {}
  /\ session_requests = {}

\* One turn of the as_completed loop.
MergeTask ==
  \E task \in RenderTasks :
     /\ pc = "merging"
     /\ Len(AllSessions(all_talks_by_day)) < MaxEntries
     /\ all_talks_by_day' = merge(all_talks_by_day, task)
     /\ UNCHANGED <<pc, scan_vars, grouped_sessions, tasks, net_vars, render_vars>>

MergeReturn ==
  /\ pc = "merging"
  /\ pc' = "fetched"
  /\ UNCHANGED <<scan_vars, grouped_sessions, fetch_vars, render_vars>>

NextRender ==
  \/ MergeTask
  \/ MergeReturn
  \/ StopNoDetails
  \/ DetermineMax
  \/ GenerateHtml

SpecRender == InitRender /\ [][NextRender]_vars

(***************************************************************************)
(* Properties of the scanner                                               *)
(***************************************************************************)
\* The step just taken scanned a continuation row.
ContinuationScanned ==
  nrows' = nrows + 1 /\ last_kind' \in {"cont_link", "cont_text"}

\* The step just taken scanned a continuation row that appended a session.
ContinuationAppended ==
  /\ ContinuationScanned
  /\ Len(Get(sessions_by_day', current_day)) = Len(Get(sessions_by_day, current_day)) + 1

\* The session the step appended, and the first session of its day with the
\* same start_time.
Appended == LET l == Get(sessions_by_day', current_day) IN l[Len(l)]

FirstOfGroup ==
  LET l == Get(sessions_by_day', current_day)
  IN  l[CHOOSE i \in 1..Len(l) :
          /\ l[i].start_time = Appended.start_time
          /\ \A j \in 1..(i - 1) : l[j].start_time # Appended.start_time]

\* C1: every session of the grouped output has a start_time that is not None.
C1_StartTimeNotNone ==
  \A i \in 1..Len(AllSessions(grouped_sessions)) :
     AllSessions(grouped_sessions)[i].start_time # None

\* C2: a continuation row scanned while the current day has no session yet
\* adds no session and raises nothing.
C2_OrphanContinuationDropped ==
  [][(ContinuationScanned /\ Get(sessions_by_day, current_day) = <<>>)
       => /\ Values(sessions_by_day') = Values(sessions_by_day)
          /\ pc' # "crashed"]_vars

C6_InheritsFromFirst ==
  [][ContinuationAppended
       => /\ Appended.start_time = FirstOfGroup.start_time
          /\ Appended.end_time = FirstOfGroup.end_time
          /\ Appended.location = FirstOfGroup.location]_vars

\* C6 amended: a session appended by a continuation row to a day that already
\* has sessions has the start_time, end_time and location of the session
\* appended to that day just before it.
C6_InheritsFromLast ==
  [][(ContinuationAppended /\ Get(sessions_by_day, current_day) # <<>>)
       => LET l == Get(sessions_by_day, current_day)
          IN  /\ Appended.start_time = l[Len(l)].start_time
              /\ Appended.end_time = l[Len(l)].end_time
              /\ Appended.location = l[Len(l)].location]_vars

\* C6 witness: a day with two slot-start sessions of one start_time and
\* different end_times, followed by a continuation session that has the
\* second one's end_time.
C6_Witness ==
  LET l == Get(sessions_by_day, current_day)
  IN  /\ last_kind \in {"cont_link", "cont_text"}
      /\ Len(l) = 3
      /\ l[1].start_time = l[3].start_time
      /\ l[2].start_time = l[3].start_time
      /\ l[1].end_time # l[2].end_time
      /\ l[3].end_time = l[2].end_time

\* C7: a session appended by a continuation row has the start_time and end_time
\* of the nearest preceding slot-start row of the same day whose time could be
\* extracted.
C7_InheritsCurrentSlot ==
  [][(ContinuationAppended /\ slot_time # <<None, None>>)
       => /\ Appended.start_time = slot_time[1]
          /\ Appended.end_time = slot_time[2]]_vars

(***************************************************************************)
(* Properties of the fetch stage and of the renderer                       *)
(***************************************************************************)
\* The results merged in the order of submission.
RECURSIVE MergedInOrder(_, _)
MergedInOrder(all_talks, futures) ==
  IF futures = <<>> THEN all_talks
  ELSE MergedInOrder(merge(all_talks, Head(futures)), Tail(futures))

\* The cells of a row that hold a session.
SessionCells(row) == {i \in 1..Len(row.cells) : ~row.cells[i].empty}

RECURSIVE SumSessionCells(_)
SumSessionCells(rows) ==
  IF rows = <<>> THEN 0
  ELSE Cardinality(SessionCells(Head(rows))) + SumSessionCells(Tail(rows))

BeginsALENEX(title) == StartsWithAt(title, <<"A", "L", "E", "N", "E", "X">>, 1)

\* C3: the document rendered does not depend on the order in which the fetch
\* tasks completed: it is the document of the results merged in the order of
\* submission.
C3_RenderDeterminism ==
  pc = "rendered"
    => LET reference == MergedInOrder(<<>>, tasks)
       IN  html = generate_html(reference, determine_max_concurrent_sessions(reference))

\* C4: when the fetch stage has returned, every session of the parsed
\* structure has its entry in the merged structure under its day and time
\* range, with an empty talk list if its task failed, and each list of the
\* merged structure holds one entry per session of its group.
C4_EverySessionMerged ==
  pc = "fetched"
    => /\ Len(tasks) = Len(AllSessions(grouped_sessions))
       /\ \A i \in 1..Len(tasks) :
            LET merged == Get(Get(all_talks_by_day, tasks[i].day), tasks[i].time_range)
            IN  /\ \E k \in 1..Len(merged) :
                      merged[k] = [title |-> tasks[i].conf_session.title,
                                   link  |-> tasks[i].conf_session.link,
                                   talks |-> IF tasks[i].raised THEN <<>>
                                             ELSE tasks[i].talks]
                /\ Len(merged) =
                      Cardinality({j \in 1..Len(tasks) :
                                     /\ tasks[j].day = tasks[i].day
                                     /\ tasks[j].time_range = tasks[i].time_range})

\* C8: in the document rendered with the maximum that main determined, a row
\* of several sessions has exactly max_sessions cells, its sessions first and
\* empty cells after them, a row of one session is one cell spanning
\* max_sessions columns, and every session of the structure has its cell.
C8_GridWidth ==
  pc = "rendered"
    => /\ \A r \in 1..Len(html) :
            /\ html[r].kind = "multi"
                 => /\ Len(html[r].cells) = max_sessions
                    /\ Cardinality(SessionCells(html[r])) >= 2
                    /\ \A i \in SessionCells(html[r]) :
                          \A j \in 1..(i - 1) : j \in SessionCells(html[r])
            /\ html[r].kind = "single"
                 => /\ html[r].colspan = max_sessions
                    /\ Len(html[r].cells) = 1
                    /\ ~html[r].cells[1].empty
       /\ SumSessionCells(html) = Len(AllSessions(all_talks_by_day))

\* C8 witness: a rendered document with a full row of three sessions, a row of
\* two sessions padded by an empty cell, and nothing truncated.
C8_Witness ==
  /\ pc = "rendered"
  /\ max_sessions = 3
  /\ \E r \in 1..Len(html) :
        html[r].kind = "multi" /\ Cardinality(SessionCells(html[r])) = 3
  /\ \E r \in 1..Len(html) :
        /\ html[r].kind = "multi"
        /\ Cardinality(SessionCells(html[r])) = 2
        /\ html[r].cells[3].empty

\* C9: in a row of several sessions every title beginning with ALENEX comes
\* after all titles that do not, and otherwise the sessions are in the order
\* of their titles.
C9_ALENEXLast ==
  pc = "rendered"
    => \A r \in 1..Len(html) :
          html[r].kind = "multi"
            => \A j \in SessionCells(html[r]) : \A i \in 1..(j - 1) :
                  LET a == html[r].cells[i].title
                      b == html[r].cells[j].title
                  IN  IF BeginsALENEX(a) = BeginsALENEX(b)
                      THEN ~StrLess(b, a)
                      ELSE BeginsALENEX(b)

\* The rendering has begun: main has counted the columns or has a document.
RenderStarted == pc \in {"counted", "rendered"} \/ max_sessions # 0 \/ html # <<>>

\* C10: the rendering begins only when every session has been dispatched and
\* every task has finished and been drained by the as_completed loop.
C10_Staged ==
  RenderStarted
    => /\ Len(tasks) = Len(AllSessions(grouped_sessions))
       /\ \A i \in 1..Len(tasks) : tasks[i].state = "drained"

\* C10 witness: a document rendered after two or more tasks, one of which
\* raised.
C10_Witness ==
  /\ pc = "rendered"
  /\ Len(tasks) >= 2
  /\ \E i \in 1..Len(tasks) : tasks[i].raised

(***************************************************************************)
(* Properties of the worker pool and of the accumulator                    *)
(***************************************************************************)
\* C11: never more than max_workers tasks are running, and a task that ends
\* while another task is running a request changes no state that the other
\* task uses: the session of the requests is what it was.
C11_WorkersIsolated ==
  [][/\ Cardinality(Running') <= max_workers
     /\ (/\ Cardinality(Running') < Cardinality(Running)
         /\ \E j \in Running' : is_session_url(tasks[j].conf_session.link))
          => http_session' = http_session]_vars

\* The tasks whose state the step changed.
Moved == {i \in 1..Len(tasks) : tasks'[i].state # tasks[i].state}

\* C12: the accumulator changes only in a step of the as_completed loop, which
\* takes one finished task and appends that task's one entry; a step in which
\* a worker takes or ends a task leaves the accumulator as it was.
C12_SingleWriter ==
  [][/\ all_talks_by_day' # all_talks_by_day
          => /\ pc = "fetching" /\ pc' = "fetching"
             /\ Len(tasks') = Len(tasks)
             /\ \E i \in 1..Len(tasks) :
                   /\ Moved = {i}
                   /\ tasks[i].state = "done" /\ tasks'[i].state = "drained"
                   /\ ~tasks[i].raised
                   /\ LET before == Get(Get(all_talks_by_day, tasks[i].day),
                                        tasks[i].time_range)
                          after  == Get(Get(all_talks_by_day', tasks[i].day),
                                        tasks[i].time_range)
                      IN  after = Append(before,
                                         [title |-> tasks[i].conf_session.title,
                                          link  |-> tasks[i].conf_session.link,
                                          talks |-> tasks[i].talks])
             /\ Len(AllSessions(all_talks_by_day')) =
                   Len(AllSessions(all_talks_by_day)) + 1
     /\ (Len(tasks') = Len(tasks)
          /\ \E i \in Moved : tasks'[i].state \in {"running", "done"})
          => all_talks_by_day' = all_talks_by_day]_vars

\* C12 witness: an entry has been merged while a worker is still running a
\* task and another finished task waits to be drained.
C12_Witness ==
  /\ pc = "fetching"
  /\ all_talks_by_day # <<>>
  /\ Running # {}
  /\ \E i \in 1..Len(tasks) : tasks[i].state = "done"

\* The link, written out, begins with https://meetings.siam.org/sess
HasSessionPrefix(link) ==
  /\ link.host = "https://meetings.siam.org"
  /\ link.path # <<>>
  /\ Len(link.path[1]) >= 4
  /\ SubSeq(link.path[1], 1, 4) = <<"s", "e", "s", "s">>

\* C13: no request is ever sent for a link without the session prefix; the
\* task of a session with such a link ends with no talks and no exception,
\* and once drained the session is in the merged structure, under its day and
\* time range, with an empty talk list.
C13_NonSessionLink ==
  /\ \A link \in session_requests : HasSessionPrefix(link)
  /\ \A i \in 1..Len(tasks) :
        ~HasSessionPrefix(tasks[i].conf_session.link)
          => /\ tasks[i].talks = <<>>
             /\ ~tasks[i].raised
             /\ tasks[i].state = "drained"
                  => LET merged == Get(Get(all_talks_by_day, tasks[i].day),
                                       tasks[i].time_range)
                     IN  \E k \in 1..Len(merged) :
                            merged[k] = [title |-> tasks[i].conf_session.title,
                                         link  |-> tasks[i].conf_session.link,
                                         talks |-> <<>>]

\* C13 witness: the fetch stage has returned after the tasks of a session with
\* the link '#' and of a session with a link to another site, and both
\* sessions are in the merged structure.
C13_Witness ==
  /\ pc = "fetched"
  /\ \E i \in 1..Len(tasks) : tasks[i].conf_session.link = HashLink
  /\ \E i \in 1..Len(tasks) : tasks[i].conf_session.link.host = "https://example.org"
  /\ Len(AllSessions(all_talks_by_day)) = Len(tasks)

(***************************************************************************)
(* Properties of main                                                      *)
(***************************************************************************)
\* C14: when fetch_main_page has returned an empty structure, main's next step
\* is to stop, with no task submitted and no request sent; when the fetch
\* stage has returned an empty structure, main's next step is to stop; main
\* stopped has counted no columns, has no document and has raised nothing.
C14_ShortCircuit ==
  [][/\ (pc = "grouped" /\ grouped_sessions = <<>>)
          => pc' = "stopped" /\ tasks' = <<>> /\ session_requests' = {}
     /\ (pc = "fetched" /\ all_talks_by_day = <<>>) => pc' = "stopped"
     /\ pc' = "stopped"
          => /\ max_sessions' = 0 /\ html' = <<>>
             /\ pc \in {"grouped", "fetched"}
             /\ grouped_sessions' = <<>> \/ all_talks_by_day' = <<>>]_vars

\* C14 witness: main has stopped after a fetch stage in which every task
\* raised, so that nothing was merged.
C14_Witness ==
  /\ pc = "stopped"
  /\ tasks # <<>>
  /\ all_talks_by_day = <<>>

\* C15: generate_html raises only when a day label of the merged structure
\* has no date that can be parsed; no time text that the scanner took for a
\* start_time makes it raise.
C15_OnlyDayLabelFatal ==
  [][(pc = "counted" /\ pc' = "crashed")
       => \E i \in 1..Len(all_talks_by_day) :
             day_key(all_talks_by_day[i].key) = Invalid]_vars

(***************************************************************************)
(* Properties of the scanner's day                                         *)
(***************************************************************************)
\* C16: no session is filed under the day None, neither in the scanner's list
\* nor in the grouped output: the day of every session is the text of a day
\* header row.
C16_DayEstablished ==
  /\ \A i \in 1..Len(sessions_by_day) :
        sessions_by_day[i].val # <<>> => sessions_by_day[i].key # None
  /\ \A i \in 1..Len(grouped_sessions) : grouped_sessions[i].key # None

\* C17: a row with a wide cell adds no session, and leaves current_day as it
\* was unless the text of its wide cell holds a weekday name, which then is
\* the new current_day; every other row leaves current_day as it was.
C17_DayFrame ==
  [][nrows' = nrows + 1
       => /\ last_kind' \in {"day", "wide"}
               => /\ Values(sessions_by_day') = Values(sessions_by_day)
                  /\ \E row \in ScanRows :
                        /\ has_td_day(row)
                        /\ LET text == td_day(row).text
                           IN  current_day' =
                                 IF \E f \in 1..Len(text) : text[f] \in Weekdays
                                 THEN text ELSE current_day
          /\ last_kind' \notin {"day", "wide"} => current_day' = current_day
          /\ current_day' # current_day
               => \E f \in 1..Len(current_day') : current_day'[f] \in Weekdays]_vars

\* C17 witness: after a session of Monday, a row of a link cell and a wide
\* cell naming Tuesday has set the day and added no session.
C17_Witness ==
  /\ last_kind = "wide"
  /\ current_day = Tuesday
  /\ Get(sessions_by_day, Tuesday) = <<>>
  /\ Get(sessions_by_day, Monday) # <<>>

(***************************************************************************)
(* Properties of the time range labels and of the order of the rows        *)
(***************************************************************************)
\* The group of the parsed structure that a task's session is in, and the
\* end_times of the group that are not None.
GroupOf(task) ==
  Get(Get(grouped_sessions, task.day), task.conf_session.start_time)

EndTimes(task) ==
  {GroupOf(task)[k].end_time : k \in 1..Len(GroupOf(task))} \ {None}

\* C18: the label of a task is the start_time of its session when its group
\* has no end_time or has one that strptime rejects; otherwise it is the
\* start_time, ' - ', and a text of the latest time of day among the group's
\* end_times; the sessions of one group have one label, and two sessions of a
\* day with different start_times have different labels.
C18_TimeRangeLabel ==
  \A i \in 1..Len(tasks) :
     LET start == tasks[i].conf_session.start_time
         label == tasks[i].time_range
         ends  == EndTimes(tasks[i])
         head  == Str(start) \o <<" ", "-", " ">>
     IN  /\ GroupOf(tasks[i]) # <<>>
         /\ IF ends = {} \/ \E e \in ends : parse_time(e) = Invalid
            THEN label = start
            ELSE /\ Len(label) > Len(head)
                 /\ SubSeq(label, 1, Len(head)) = head
                 /\ LET shown == parse_time(SubSeq(label, Len(head) + 1, Len(label)))
                    IN  /\ \E e \in ends : parse_time(e) = shown
                        /\ \A e \in ends : parse_time(e) <= shown
         /\ \A j \in 1..Len(tasks) :
               tasks[j].day = tasks[i].day
                 => (tasks[j].time_range = label
                       <=> tasks[j].conf_session.start_time = start)

\* C18 witness: a group of two sessions with different end_times whose label
\* shows the later one, and a group whose end_time strptime rejects, labelled
\* by its start_time.
C18_Witness ==
  /\ pc = "fetching"
  /\ \E i \in 1..Len(tasks) :
        /\ Cardinality(EndTimes(tasks[i])) = 2
        /\ tasks[i].time_range = Time_9AM \o Dash \o Time_11AM
  /\ \E i \in 1..Len(tasks) :
        /\ EndTimes(tasks[i]) = {Time_11AM_tight}
        /\ tasks[i].time_range = Time_9AM

\* The rows of the document that are day headers, and the rows of the time
\* ranges under the header at row r: those up to the next header.
DayHeaders == {r \in 1..Len(html) : html[r].kind = "day"}

RowsUnder(r) ==
  {q \in (r + 1)..Len(html) : \A h \in DayHeaders : h <= r \/ h > q}

\* The sessions shown in a row, and the sessions of a list of the structure.
ShownIn(row) ==
  {[title |-> row.cells[i].title, link |-> row.cells[i].link,
    talks |-> row.cells[i].talks] : i \in SessionCells(row)}

SessionsIn(sessions) == {sessions[i] : i \in 1..Len(sessions)}

\* The time of day of the start of a time range, and the date of a day.
StartOf(time_range) == parse_time(BeforeDash(time_range))

DateOf(day) == parse_date(day[2])

\* C19: the rendered document has one header per day of the merged structure,
\* the headers in the order of their dates; under a header there is one row
\* per time range of the day, the rows being the groups of the day taken in
\* an order in which the time of day of the start never decreases; whatever
\* the order in which the days and time ranges were merged.
C19_RowOrder ==
  pc = "rendered"
    => /\ Cardinality(DayHeaders) = Len(all_talks_by_day)
       /\ \A i \in 1..Len(all_talks_by_day) :
             \E r \in DayHeaders : html[r].day = all_talks_by_day[i].key
       /\ \A r1, r2 \in DayHeaders :
             r1 < r2 => DateOf(html[r1].day) < DateOf(html[r2].day)
       /\ \A r \in DayHeaders :
             LET times == Get(all_talks_by_day, html[r].day)
                 n     == Len(times)
             IN  /\ Cardinality(RowsUnder(r)) = n
                 /\ RowsUnder(r) = (r + 1)..(r + n)
                 /\ \E f \in [1..n -> 1..n] :
                       /\ \A a, b \in 1..n : a # b => f[a] # f[b]
                       /\ \A k \in 1..n :
                             ShownIn(html[r + k]) = SessionsIn(times[f[k]].val)
                       /\ \A a, b \in 1..n :
                             a < b => StartOf(times[f[a]].key) <= StartOf(times[f[b]].key)

\* C19 witness: a document rendered from a structure in which Tuesday was
\* merged before Monday and, on Monday, the afternoon before the morning.
C19_Witness ==
  /\ pc = "rendered"
  /\ Len(all_talks_by_day) = 2
  /\ all_talks_by_day[1].key = Tuesday
  /\ Keys(Get(all_talks_by_day, Monday)) = <<Time_2PM, Time_9AM \o Dash \o Time_1030AM>>

(***************************************************************************)
(* Termination of the fetch stage                                          *)
(***************************************************************************)
\* C20: under fair scheduling, once the tasks are submitted the fetch stage
\* returns, with every task started, ended and drained.
C20_FetchTerminates ==
  (pc = "fetching")
    ~> (/\ pc = "fetched"
        /\ Len(tasks) = Len(AllSessions(grouped_sessions))
        /\ \A i \in 1..Len(tasks) : tasks[i].state = "drained")

=============================================================================
